---- MODULE Spec2Model ----
(***************************************************************************)
(* The SharedArrayBuffer hand-off of shared-arraybuffers-test.             *)
(*                                                                         *)
(* Two threads are modelled.  The main thread runs the SharedBufferDemo    *)
(* component (src/src/components/SharedBufferDemo.tsx) on top of the       *)
(* useWorker hook (src/src/utils/useWorker.ts): every event handler of the *)
(* main thread (input change, click on Run, interval tick, worker message) *)
(* is one action.  The worker thread runs the message listener of the      *)
(* shared-buffer worker (src/unnamed/part_003); it executes concurrently   *)
(* with the main thread, so the listener is cut into steps at each access  *)
(* to the shared memory and at each postMessage.                           *)
(*                                                                         *)
(* Representation of values.                                               *)
(*  - bufferSize and iterations come from Number(e.target.value) and may   *)
(*    be zero, negative or non-integer.  A JavaScript number x of these    *)
(*    two quantities is represented by the integer 2x (all modelled inputs *)
(*    are multiples of 1/2).  Whole(n) is the representation of integer n. *)
(*  - a Float64 payload value v is represented by floor(100 * v).          *)
(*  - loop counters, byte counts, progress percentages are plain integers. *)
(***************************************************************************)
EXTENDS Integers, Sequences, FiniteSets, TLC

\* ------------------------------------------------------------------ bounds
MaxRuns == 2
MaxStarts == 3
MaxBufferSize == 2
MaxIterations == 2
MaxForeign == 1
MaxPasses == 45

\* ------------------------------------------------------- program constants
Float64BytesPerElement == 8
Int32BytesPerElement == 4
SliceEnd == 10
ProgressCheckpoints == 20
ProgressStep == 5
ProgressCap == 95

\* ------------------------------------------------------ number conversions
Whole(n) == 2 * n

IsInteger(x) == x % 2 = 0

\* ToIntegerOrInfinity: truncation toward zero
Trunc(x) == IF x >= 0 THEN x \div 2 ELSE -((-x) \div 2)

\* Math.sqrt on a non-negative integer radicand, in hundredths
SqrtTable ==
    [n \in 0..(MaxBufferSize * MaxIterations) |->
        CHOOSE r \in 0..(100 * n) : r * r <= 10000 * n /\ (r + 1) * (r + 1) > 10000 * n]

Sqrt(n) == SqrtTable[n]

Max(a, b) == IF a >= b THEN a ELSE b

Min(a, b) == IF a <= b THEN a ELSE b

\* Array.prototype.slice(0, end) on a sequence
Slice(s, end) == SubSeq(s, 1, IF Len(s) < end THEN Len(s) ELSE end)

\* -------------------------------------------------------------- the inputs
\* values the two <input type="number"> fields can hold after
\* Number(e.target.value): a negative number, zero (also what an empty or
\* unparsable field gives), a non-integer (1.5), a positive integer
BufferSizeInputs == {Whole(-1), Whole(0), Whole(1) + 1, Whole(MaxBufferSize)}

IterationsInputs == {Whole(0), Whole(1), Whole(1) + 1, Whole(MaxIterations)}

\* ---------------------------------------------------------- message fields
NumberValue(x) == [t |-> "number", v |-> x]
StringValue == [t |-> "string", v |-> 0]
Undefined == [t |-> "undefined", v |-> 0]

SharedBuffer(r) == [kind |-> "SharedArrayBuffer", id |-> r]
PlainBuffer == [kind |-> "ArrayBuffer", id |-> 0]
NoBuffer == [kind |-> "undefined", id |-> 0]

VARIABLES
    \* SharedBufferDemo: React state and refs
    bufferSize, iterations, isCalculating, progress, result,
    intervalRef, sharedBufferRef,
    \* the browser: active interval timers, allocated SharedArrayBuffers
    timers, buffers,
    \* the two directions of the worker's message channel
    inbox, outbox,
    \* the worker thread: position in the listener and its locals
    wpc, wbuf, wsize, witerations, iter, i,
    \* history
    posted, sentLog, observed, payloadRead, rejected, foreign,
    \* useWorker and the life of the component: the phase of the component
    \* ("render" before its effects have run, then "mounted", then
    \* "unmounted"), the hook's state and ref, whether its messageHandler is
    \* attached to the worker, whether the worker was terminated
    phase, isReady, workerRef, listening, terminated

cvars == <<bufferSize, iterations, isCalculating, progress, result, intervalRef, sharedBufferRef>>
wvars == <<wpc, wbuf, wsize, witerations, iter, i>>
hvars == <<posted, sentLog, observed, payloadRead, rejected, foreign>>
lvars == <<phase, isReady, workerRef, listening, terminated>>
vars == <<cvars, timers, buffers, inbox, outbox, wvars, hvars, lvars>>

NoRead == [buffer |-> 0, syncFlag |-> 1]

Init ==
    /\ bufferSize \in BufferSizeInputs
    /\ iterations \in IterationsInputs
    /\ isCalculating = FALSE
    /\ progress = 0
    /\ result = <<>>
    /\ intervalRef = 0
    /\ sharedBufferRef = 0
    /\ timers = {}
    /\ buffers = <<>>
    /\ inbox = <<>>
    /\ outbox = <<>>
    /\ wpc = "idle"
    /\ wbuf = 0
    /\ wsize = 0
    /\ witerations = 0
    /\ iter = 0
    /\ i = 0
    /\ posted = <<>>
    /\ sentLog = <<>>
    /\ observed = {}
    /\ payloadRead = NoRead
    /\ rejected = 0
    /\ foreign = 0
    /\ phase = "mounted"
    /\ isReady = TRUE
    /\ workerRef = 1
    /\ listening = TRUE
    /\ terminated = FALSE


\* ------------------------------------------------ the shared memory regions
\* the Float64Array view of buffer r and its length
ArrayOf(r) == buffers[r].array

\* Atomics.load(syncFlag, 0) on buffer r
AtomicsLoad(r) == buffers[r].syncFlag

\* sharedArray[k] = v; an index outside the view is ignored, as typed arrays do
ArrayStore(a, k, v) == IF k + 1 <= Len(a) THEN [a EXCEPT ![k + 1] = v] ELSE a

\* passes of the worker's fill loop that have not yet written element k of
\* buffer r: the rest of the current run, or a whole run still in the inbox
PendingPasses(r, k) ==
    {it \in 0..MaxIterations + 1 :
        \/ /\ wbuf = r
           /\ wpc \in {"loop", "fill"}
           /\ Whole(it) < witerations
           /\ Whole(k) < wsize
           /\ \/ it > iter
              \/ it = iter /\ (wpc = "loop" \/ k >= i)
        \/ \E n \in 1..Len(inbox) :
              /\ inbox[n].buffer = SharedBuffer(r)
              /\ inbox[n].bufferSize.t = "number"
              /\ inbox[n].iterations.t = "number"
              /\ Whole(it) < inbox[n].iterations.v
              /\ Whole(k) < inbox[n].bufferSize.v}

\* what an ordinary (non-atomic) read of element k of buffer r can return
\* while the handler runs: the value in memory, or one the worker stores
\* during the read
CanRead(r, k) == {ArrayOf(r)[k + 1]} \cup {Sqrt(k * it) : it \in PendingPasses(r, k)}

\* Array.from(sharedBufferRef.current.array): every sequence the read can see
ArrayFrom(r) ==
    LET n == Len(ArrayOf(r))
        vals == UNION {CanRead(r, k) : k \in 0..n - 1}
    IN {s \in [1..n -> vals] : \A k \in 0..n - 1 : s[k + 1] \in CanRead(r, k)}

\* history: the buffer whose payload elements a handler reads, with the
\* value of its synchronization word at that moment
ReadOf(r) ==
    IF Len(ArrayOf(r)) > 0
    THEN [buffer |-> r, syncFlag |-> AtomicsLoad(r)]
    ELSE payloadRead

\* ------------------------------------------------------------ main thread
\* the onChange handlers of the two inputs (disabled while calculating);
\* input changes are explored as long as a further run can use them
setBufferSize(v) ==
    /\ phase = "mounted"
    /\ ~isCalculating
    /\ Len(buffers) < MaxRuns
    /\ bufferSize' = v
    /\ UNCHANGED <<iterations, isCalculating, progress, result, intervalRef, sharedBufferRef>>
    /\ UNCHANGED <<timers, buffers, inbox, outbox, wvars, hvars>>
    /\ UNCHANGED lvars

setIterations(v) ==
    /\ phase = "mounted"
    /\ ~isCalculating
    /\ Len(buffers) < MaxRuns
    /\ iterations' = v
    /\ UNCHANGED <<bufferSize, isCalculating, progress, result, intervalRef, sharedBufferRef>>
    /\ UNCHANGED <<timers, buffers, inbox, outbox, wvars, hvars>>
    /\ UNCHANGED lvars

floatArrayByteSize(size) == size * Float64BytesPerElement

syncFlagByteOffset(size) == floatArrayByteSize(size)

\* mutant of totalByteSize: the flag padded to eight bytes
totalByteSizePadded(size) == floatArrayByteSize(size) + Whole(Float64BytesPerElement)

totalByteSize(size) == floatArrayByteSize(size) + Whole(Int32BytesPerElement)

\* the constructors of startSharedCalculation that raise a RangeError:
\* new SharedArrayBuffer, new Float64Array(buffer, 0, length),
\* new Int32Array(buffer, byteOffset, 1)
SharedArrayBufferThrows(size) == Trunc(totalByteSize(size)) < 0

Float64ArrayThrows(size, byteLength) ==
    \/ Trunc(size) < 0
    \/ Trunc(size) * Float64BytesPerElement > byteLength

Int32ArrayThrows(size, byteLength) ==
    \/ Trunc(syncFlagByteOffset(size)) < 0
    \/ Trunc(syncFlagByteOffset(size)) % Int32BytesPerElement # 0
    \/ Trunc(syncFlagByteOffset(size)) + Int32BytesPerElement > byteLength

StartThrows(size) ==
    \/ SharedArrayBufferThrows(size)
    \/ Float64ArrayThrows(size, Trunc(totalByteSize(size)))
    \/ Int32ArrayThrows(size, Trunc(totalByteSize(size)))

\* mutant of ZeroFilled: the payload is not zero when the buffer is sent
ZeroFilledOnes(size) == [k \in 1..Trunc(size) |-> 100]

\* the zero-filled Float64Array view of a fresh buffer
ZeroFilled(size) == [k \in 1..Trunc(size) |-> 0]

\* sendMessage of useWorker: the message is posted if the worker exists
sendMessage(message) ==
    IF workerRef # 0
    THEN inbox' = Append(inbox, message)
    ELSE UNCHANGED inbox

\* mutant of ComputeShared: every message carries the first buffer
ComputeSharedFirst(r, size, its) ==
    [type |-> "compute-shared", buffer |-> SharedBuffer(1),
     bufferSize |-> NumberValue(size), iterations |-> NumberValue(its)]

ComputeShared(r, size, its) ==
    [type |-> "compute-shared", buffer |-> SharedBuffer(r),
     bufferSize |-> NumberValue(size), iterations |-> NumberValue(its)]

\* a click on Run (disabled={!isReady || isCalculating}) and the handler
StartRun ==
    /\ phase = "mounted"
    /\ isReady
    /\ ~isCalculating
    /\ IF StartThrows(bufferSize)
       THEN UNCHANGED vars
       ELSE LET r == Len(buffers) + 1
                message == ComputeShared(r, bufferSize, iterations)
            IN /\ buffers' = Append(buffers,
                     [byteLength |-> Trunc(totalByteSize(bufferSize)),
                      array |-> ZeroFilled(bufferSize),
                      syncFlag |-> 0])
               /\ sharedBufferRef' = r
               /\ isCalculating' = TRUE
               /\ progress' = 0
               /\ result' = <<>>
               /\ intervalRef' = r
               /\ timers' = timers \cup {r}
               /\ sendMessage(message)
               /\ posted' = Append(posted, message)
               /\ payloadRead' = NoRead
               /\ UNCHANGED <<bufferSize, iterations, outbox, wvars>>
               /\ UNCHANGED <<sentLog, observed, rejected, foreign>>
    /\ UNCHANGED lvars

\* startSharedCalculation, as long as the model has a buffer left for the run
startSharedCalculation ==
    /\ Len(buffers) < MaxRuns
    /\ StartRun

\* mutant of ClearInterval: the handle is set to null without clearInterval
ClearIntervalForgets ==
    IF intervalRef # 0
    THEN intervalRef' = 0 /\ UNCHANGED timers
    ELSE UNCHANGED <<timers, intervalRef>>

\* window.clearInterval(intervalRef.current); intervalRef.current = null
ClearInterval ==
    IF intervalRef # 0
    THEN timers' = timers \ {intervalRef} /\ intervalRef' = 0
    ELSE UNCHANGED <<timers, intervalRef>>

\* mutant of pollTick: the component clears the payload after reading it
pollTickClears ==
    /\ timers # {}
    /\ IF sharedBufferRef = 0
       THEN UNCHANGED vars
       ELSE LET isDone == AtomicsLoad(sharedBufferRef) = 1
            IN IF isDone
               THEN /\ \E results \in ArrayFrom(sharedBufferRef) :
                          result' = Slice(results, SliceEnd)
                    /\ buffers' = [buffers EXCEPT ![sharedBufferRef].array =
                                      [k \in 1..Len(@) |-> 0]]
                    /\ progress' = 100
                    /\ isCalculating' = FALSE
                    /\ ClearInterval
                    /\ payloadRead' = ReadOf(sharedBufferRef)
                    /\ observed' = observed \cup {sharedBufferRef}
                    /\ UNCHANGED <<bufferSize, iterations, sharedBufferRef>>
                    /\ UNCHANGED <<inbox, outbox, wvars>>
                    /\ UNCHANGED <<posted, sentLog, rejected, foreign>>
               ELSE UNCHANGED vars
    /\ UNCHANGED lvars

\* the callback of window.setInterval(..., 200)
pollTick ==
    /\ timers # {}
    /\ IF sharedBufferRef = 0
       THEN UNCHANGED vars
       ELSE LET isDone == AtomicsLoad(sharedBufferRef) = 1
            IN IF isDone
               THEN /\ \E results \in ArrayFrom(sharedBufferRef) :
                          result' = Slice(results, SliceEnd)
                    /\ progress' = 100
                    /\ isCalculating' = FALSE
                    /\ ClearInterval
                    /\ payloadRead' = ReadOf(sharedBufferRef)
                    /\ observed' = observed \cup {sharedBufferRef}
                    /\ UNCHANGED <<bufferSize, iterations, sharedBufferRef>>
                    /\ UNCHANGED <<buffers, inbox, outbox, wvars>>
                    /\ UNCHANGED <<posted, sentLog, rejected, foreign>>
               ELSE UNCHANGED vars
    /\ UNCHANGED lvars

\* the onMessage option handed to useWorker, called by its messageHandler
onMessage ==
    /\ listening
    /\ outbox # <<>>
    /\ LET data == Head(outbox)
       IN /\ outbox' = Tail(outbox)
          /\ IF data.type = "shared-complete"
             THEN /\ IF sharedBufferRef # 0
                     THEN /\ \E results \in ArrayFrom(sharedBufferRef) :
                                result' = Slice(results, SliceEnd)
                          /\ payloadRead' = ReadOf(sharedBufferRef)
                     ELSE UNCHANGED <<result, payloadRead>>
                  /\ isCalculating' = FALSE
                  /\ progress' = 100
                  /\ ClearInterval
                  /\ observed' = observed \cup {data.run}
             ELSE IF data.type = "progress" /\ data.progress # Undefined
             THEN /\ progress' = data.progress.v
                  /\ UNCHANGED <<isCalculating, result, intervalRef, timers>>
                  /\ UNCHANGED <<observed, payloadRead>>
             ELSE /\ UNCHANGED <<isCalculating, progress, result, intervalRef, timers>>
                  /\ UNCHANGED <<observed, payloadRead>>
          /\ UNCHANGED <<bufferSize, iterations, sharedBufferRef>>
          /\ UNCHANGED <<buffers, inbox, wvars>>
          /\ UNCHANGED <<posted, sentLog, rejected, foreign>>
    /\ UNCHANGED lvars

\* ----------------------------------------------------------- worker thread
\* mutant of isSharedBufferMessage: the type of iterations is not checked
isSharedBufferMessageLoose(message) ==
    /\ message.type = "compute-shared"
    /\ message.buffer.kind = "SharedArrayBuffer"
    /\ message.bufferSize.t = "number"

isSharedBufferMessage(message) ==
    /\ message.type = "compute-shared"
    /\ message.buffer # NoBuffer
    /\ message.buffer.kind = "SharedArrayBuffer"
    /\ message.bufferSize # Undefined
    /\ message.bufferSize.t = "number"
    /\ message.iterations # Undefined
    /\ message.iterations.t = "number"

\* ctx.postMessage(message) from the worker
postMessage(message) ==
    /\ outbox' = Append(outbox, message)
    /\ sentLog' = Append(sentLog, message)

ProgressMessage(p) == [type |-> "progress", progress |-> NumberValue(p), run |-> wbuf]

SharedComplete == [type |-> "shared-complete", progress |-> Undefined, run |-> wbuf]

\* mutant of workerListener: a valid message is taken and not computed
workerListenerIgnores ==
    /\ ~terminated
    /\ wpc = "idle"
    /\ inbox # <<>>
    /\ inbox' = Tail(inbox)
    /\ UNCHANGED <<wvars, rejected>>
    /\ UNCHANGED <<cvars, timers, buffers, outbox>>
    /\ UNCHANGED <<posted, sentLog, observed, payloadRead, foreign>>
    /\ UNCHANGED lvars

\* mutant of workerListener: the completion flag is stored before the passes
workerListenerStoresEarly ==
    /\ ~terminated
    /\ wpc = "idle"
    /\ inbox # <<>>
    /\ LET data == Head(inbox)
       IN /\ inbox' = Tail(inbox)
          /\ IF data.type = "compute-shared"
             THEN IF isSharedBufferMessage(data)
                  THEN /\ wbuf' = data.buffer.id
                       /\ wsize' = data.bufferSize.v
                       /\ witerations' = data.iterations.v
                       /\ iter' = 0
                       /\ i' = 0
                       /\ wpc' = "loop"
                       /\ buffers' = [buffers EXCEPT ![data.buffer.id].syncFlag = 1]
                       /\ UNCHANGED rejected
                  ELSE /\ rejected' = rejected + 1
                       /\ UNCHANGED <<wvars, buffers>>
             ELSE UNCHANGED <<wvars, rejected, buffers>>
          /\ UNCHANGED <<cvars, timers, outbox>>
          /\ UNCHANGED <<posted, sentLog, observed, payloadRead, foreign>>
    /\ UNCHANGED lvars

\* the worker's message listener, up to the call of performSharedCalculation
workerListener ==
    /\ ~terminated
    /\ wpc = "idle"
    /\ inbox # <<>>
    /\ LET data == Head(inbox)
       IN /\ inbox' = Tail(inbox)
          /\ IF data.type = "compute-shared"
             THEN IF isSharedBufferMessage(data)
                  THEN /\ wbuf' = data.buffer.id
                       /\ wsize' = data.bufferSize.v
                       /\ witerations' = data.iterations.v
                       /\ iter' = 0
                       /\ i' = 0
                       /\ wpc' = "loop"
                       /\ UNCHANGED rejected
                  ELSE /\ rejected' = rejected + 1
                       /\ UNCHANGED wvars
             ELSE UNCHANGED <<wvars, rejected>>
          /\ UNCHANGED <<cvars, timers, buffers, outbox>>
          /\ UNCHANGED <<posted, sentLog, observed, payloadRead, foreign>>
    /\ UNCHANGED lvars

\* mutant of ProgressOf: the percentage of the pass after the current one
ProgressOfNext(it, its) == (Whole(it + 1) * 100) \div its

\* Math.floor((iter / iterations) * 100); the double arithmetic gives the
\* exact quotient for every iterations below 50
ProgressOf(it, its) == (Whole(it) * 100) \div its

\* mutant of IsCheckpoint: the interval is a fortieth of the passes
IsCheckpointFortieth(it, its) == it % Max(1, its \div Whole(2 * ProgressCheckpoints)) = 0

\* iter % Math.max(1, Math.floor(iterations / 20)) === 0
IsCheckpoint(it, its) == it % Max(1, its \div Whole(ProgressCheckpoints)) = 0

\* mutant of performSharedCalculation: the inner loop is entered for an
\* empty payload
performSharedCalculationFillsEmpty ==
    /\ ~terminated
    /\ wpc = "loop"
    /\ IF Whole(iter) < witerations
       THEN /\ IF IsCheckpoint(iter, witerations)
               THEN postMessage(ProgressMessage(ProgressOf(iter, witerations)))
               ELSE UNCHANGED <<outbox, sentLog>>
            /\ wpc' = "fill" /\ i' = 0 /\ UNCHANGED iter
       ELSE /\ postMessage(ProgressMessage(100))
            /\ wpc' = "store"
            /\ UNCHANGED <<iter, i>>
    /\ UNCHANGED <<wbuf, wsize, witerations>>
    /\ UNCHANGED <<cvars, timers, buffers, inbox>>
    /\ UNCHANGED <<posted, observed, payloadRead, rejected, foreign>>
    /\ UNCHANGED lvars

\* performSharedCalculation: the head of the pass loop with its progress
\* report, and the report of 100 when the loop is left
performSharedCalculation ==
    /\ ~terminated
    /\ wpc = "loop"
    /\ IF Whole(iter) < witerations
       THEN /\ IF IsCheckpoint(iter, witerations)
               THEN postMessage(ProgressMessage(ProgressOf(iter, witerations)))
               ELSE UNCHANGED <<outbox, sentLog>>
            /\ IF Whole(0) < wsize
               THEN wpc' = "fill" /\ i' = 0 /\ UNCHANGED iter
               ELSE wpc' = "loop" /\ i' = 0 /\ iter' = iter + 1
       ELSE /\ postMessage(ProgressMessage(100))
            /\ wpc' = "store"
            /\ UNCHANGED <<iter, i>>
    /\ UNCHANGED <<wbuf, wsize, witerations>>
    /\ UNCHANGED <<cvars, timers, buffers, inbox>>
    /\ UNCHANGED <<posted, observed, payloadRead, rejected, foreign>>
    /\ UNCHANGED lvars

\* mutant of PassValue: the pass number off by one
PassValueOffByOne(k, it) == Sqrt(k * (it + 1))

\* the value pass it stores at index k
PassValue(k, it) == Sqrt(k * it)

\* sharedArray[i] = Math.sqrt(i * iter), one element of the inner loop
fillElement ==
    /\ ~terminated
    /\ wpc = "fill"
    /\ buffers' = [buffers EXCEPT ![wbuf].array = ArrayStore(@, i, PassValue(i, iter))]
    /\ IF Whole(i + 1) < wsize
       THEN i' = i + 1 /\ UNCHANGED <<wpc, iter>>
       ELSE i' = 0 /\ iter' = iter + 1 /\ wpc' = "loop"
    /\ UNCHANGED <<wbuf, wsize, witerations>>
    /\ UNCHANGED <<cvars, timers, inbox, outbox, hvars>>
    /\ UNCHANGED lvars

\* mutant of atomicsStore: the store of 1 is left out
atomicsStoreSkipped ==
    /\ ~terminated
    /\ wpc = "store"
    /\ wpc' = "notify"
    /\ UNCHANGED <<wbuf, wsize, witerations, iter, i>>
    /\ UNCHANGED <<cvars, timers, buffers, inbox, outbox, hvars>>
    /\ UNCHANGED lvars

\* Atomics.store(syncFlag, 0, 1)
atomicsStore ==
    /\ ~terminated
    /\ wpc = "store"
    /\ buffers' = [buffers EXCEPT ![wbuf].syncFlag = 1]
    /\ wpc' = "notify"
    /\ UNCHANGED <<wbuf, wsize, witerations, iter, i>>
    /\ UNCHANGED <<cvars, timers, inbox, outbox, hvars>>
    /\ UNCHANGED lvars

\* Atomics.notify(syncFlag, 0, 1): no agent waits on the word
atomicsNotify ==
    /\ ~terminated
    /\ wpc = "notify"
    /\ wpc' = "complete"
    /\ UNCHANGED <<wbuf, wsize, witerations, iter, i>>
    /\ UNCHANGED <<cvars, timers, buffers, inbox, outbox, hvars>>
    /\ UNCHANGED lvars

\* mutant of postComplete: the completion message is posted twice
postCompleteTwice ==
    /\ ~terminated
    /\ wpc = "complete"
    /\ outbox' = outbox \o <<SharedComplete, SharedComplete>>
    /\ sentLog' = sentLog \o <<SharedComplete, SharedComplete>>
    /\ wpc' = "idle"
    /\ wbuf' = 0
    /\ wsize' = 0
    /\ witerations' = 0
    /\ iter' = 0
    /\ i' = 0
    /\ UNCHANGED <<cvars, timers, buffers, inbox>>
    /\ UNCHANGED <<posted, observed, payloadRead, rejected, foreign>>
    /\ UNCHANGED lvars

\* ctx.postMessage({ type: 'shared-complete' }), the end of the listener
postComplete ==
    /\ ~terminated
    /\ wpc = "complete"
    /\ postMessage(SharedComplete)
    /\ wpc' = "idle"
    /\ wbuf' = 0
    /\ wsize' = 0
    /\ witerations' = 0
    /\ iter' = 0
    /\ i' = 0
    /\ UNCHANGED <<cvars, timers, buffers, inbox>>
    /\ UNCHANGED <<posted, observed, payloadRead, rejected, foreign>>
    /\ UNCHANGED lvars

\* ------------------------------------------------------- the specification
Next ==
    \/ \E v \in BufferSizeInputs : setBufferSize(v)
    \/ \E v \in IterationsInputs : setIterations(v)
    \/ startSharedCalculation
    \/ pollTick
    \/ onMessage
    \/ workerListener
    \/ performSharedCalculation
    \/ fillElement
    \/ atomicsStore
    \/ atomicsNotify
    \/ postComplete

Spec == Init /\ [][Next]_vars

\* scheduling: the worker thread keeps running its listener, the browser keeps
\* firing an active interval and keeps delivering queued message events
Fairness ==
    /\ WF_vars(pollTick)
    /\ WF_vars(onMessage)
    /\ WF_vars(workerListener)
    /\ WF_vars(performSharedCalculation)
    /\ WF_vars(fillElement)
    /\ WF_vars(atomicsStore)
    /\ WF_vars(atomicsNotify)
    /\ WF_vars(postComplete)

\* the runs of one choice of the two inputs
NextLive ==
    \/ startSharedCalculation
    \/ pollTick
    \/ onMessage
    \/ workerListener
    \/ performSharedCalculation
    \/ fillElement
    \/ atomicsStore
    \/ atomicsNotify
    \/ postComplete

SpecLive == Init /\ [][NextLive]_vars /\ Fairness

\* a message event of the worker that the component did not post (the
\* listener accepts any BaseWorkerMessage): a compute-shared message with one
\* field missing or of the wrong type, or a message of another type
Well == NumberValue(Whole(1))

ForeignMessages ==
    LET shared == IF sharedBufferRef # 0 THEN {SharedBuffer(sharedBufferRef)} ELSE {}
    IN {[type |-> "compute-shared", buffer |-> b, bufferSize |-> Well, iterations |-> Well] :
            b \in {NoBuffer, PlainBuffer}}
       \cup {[type |-> "compute-shared", buffer |-> b, bufferSize |-> s, iterations |-> Well] :
            b \in shared, s \in {Undefined, StringValue}}
       \cup {[type |-> "compute-shared", buffer |-> b, bufferSize |-> Well, iterations |-> n] :
            b \in shared, n \in {Undefined, StringValue}}
       \cup {[type |-> "compute", buffer |-> NoBuffer, bufferSize |-> Undefined,
              iterations |-> Undefined]}

postForeign ==
    /\ ~terminated
    /\ foreign < MaxForeign
    /\ \E message \in ForeignMessages : inbox' = Append(inbox, message)
    /\ foreign' = foreign + 1
    /\ UNCHANGED <<cvars, timers, buffers, outbox, wvars>>
    /\ UNCHANGED <<posted, sentLog, observed, payloadRead, rejected>>
    /\ UNCHANGED lvars

\* the worker under any client: the component posts its start message,
\* other messages arrive as well; the completion handlers of the main
\* thread do not act on the worker and are left out
NextEngine ==
    \/ startSharedCalculation
    \/ postForeign
    \/ workerListener
    \/ performSharedCalculation
    \/ fillElement
    \/ atomicsStore
    \/ atomicsNotify
    \/ postComplete

SpecEngine == Init /\ [][NextEngine]_vars

\* ------------------------------- the component that synthesizes progress
\* the earlier form of SharedBufferDemo: its start handler is the one above,
\* its onMessage handles shared-complete only, and its interval callback
\* raises the progress itself while the word is 0

\* the callback of window.setInterval(..., 200)
pollTickSynthesized ==
    /\ timers # {}
    /\ IF sharedBufferRef = 0
       THEN UNCHANGED vars
       ELSE LET isDone == AtomicsLoad(sharedBufferRef) = 1
            IN IF isDone
               THEN /\ \E results \in ArrayFrom(sharedBufferRef) :
                          result' = Slice(results, SliceEnd)
                    /\ progress' = 100
                    /\ isCalculating' = FALSE
                    /\ ClearInterval
                    /\ payloadRead' = ReadOf(sharedBufferRef)
                    /\ observed' = observed \cup {sharedBufferRef}
                    /\ UNCHANGED <<bufferSize, iterations, sharedBufferRef>>
                    /\ UNCHANGED <<buffers, inbox, outbox, wvars>>
                    /\ UNCHANGED <<posted, sentLog, rejected, foreign>>
               ELSE /\ progress' = Min(progress + ProgressStep, ProgressCap)
                    /\ UNCHANGED <<bufferSize, iterations, isCalculating, result>>
                    /\ UNCHANGED <<intervalRef, sharedBufferRef>>
                    /\ UNCHANGED <<timers, buffers, inbox, outbox, wvars, hvars>>
    /\ UNCHANGED lvars

\* the onMessage option: any message but shared-complete is ignored
onMessageSynthesized ==
    /\ listening
    /\ outbox # <<>>
    /\ LET data == Head(outbox)
       IN /\ outbox' = Tail(outbox)
          /\ IF data.type = "shared-complete"
             THEN /\ IF sharedBufferRef # 0
                     THEN /\ \E results \in ArrayFrom(sharedBufferRef) :
                                result' = Slice(results, SliceEnd)
                          /\ payloadRead' = ReadOf(sharedBufferRef)
                     ELSE UNCHANGED <<result, payloadRead>>
                  /\ isCalculating' = FALSE
                  /\ progress' = 100
                  /\ ClearInterval
                  /\ observed' = observed \cup {data.run}
             ELSE /\ UNCHANGED <<isCalculating, progress, result, intervalRef, timers>>
                  /\ UNCHANGED <<observed, payloadRead>>
          /\ UNCHANGED <<bufferSize, iterations, sharedBufferRef>>
          /\ UNCHANGED <<buffers, inbox, wvars>>
          /\ UNCHANGED <<posted, sentLog, rejected, foreign>>
    /\ UNCHANGED lvars

NextSynthesized ==
    \/ startSharedCalculation
    \/ pollTickSynthesized
    \/ onMessageSynthesized
    \/ workerListener
    \/ performSharedCalculation
    \/ fillElement
    \/ atomicsStore
    \/ atomicsNotify
    \/ postComplete

SpecSynthesized == Init /\ [][NextSynthesized]_vars

\* ------------------------------------------ mounting and unmounting
\* the component before its effects have run: useState(false) of isReady,
\* useRef(null) of workerRef
InitLifecycle ==
    /\ bufferSize \in BufferSizeInputs
    /\ iterations \in IterationsInputs
    /\ isCalculating = FALSE
    /\ progress = 0
    /\ result = <<>>
    /\ intervalRef = 0
    /\ sharedBufferRef = 0
    /\ timers = {}
    /\ buffers = <<>>
    /\ inbox = <<>>
    /\ outbox = <<>>
    /\ wpc = "idle"
    /\ wbuf = 0
    /\ wsize = 0
    /\ witerations = 0
    /\ iter = 0
    /\ i = 0
    /\ posted = <<>>
    /\ sentLog = <<>>
    /\ observed = {}
    /\ payloadRead = NoRead
    /\ rejected = 0
    /\ foreign = 0
    /\ phase = "render"
    /\ isReady = FALSE
    /\ workerRef = 0
    /\ listening = FALSE
    /\ terminated = FALSE

\* mutant of useWorkerEffect: isReady is set after the try block
useWorkerEffectReadyAnyway ==
    /\ phase = "render"
    /\ phase' = "mounted"
    /\ \E created \in BOOLEAN :
          IF created
          THEN /\ workerRef' = 1
               /\ listening' = TRUE
               /\ isReady' = TRUE
               /\ UNCHANGED terminated
          ELSE /\ isReady' = TRUE
               /\ UNCHANGED <<workerRef, listening, terminated>>
    /\ UNCHANGED <<cvars, timers, buffers, inbox, outbox, wvars, hvars>>

\* the effect of useWorker: new Worker either returns or throws; the catch
\* only logs
useWorkerEffect ==
    /\ phase = "render"
    /\ phase' = "mounted"
    /\ \E created \in BOOLEAN :
          IF created
          THEN /\ workerRef' = 1
               /\ listening' = TRUE
               /\ isReady' = TRUE
               /\ UNCHANGED terminated
          ELSE UNCHANGED <<isReady, workerRef, listening, terminated>>
    /\ UNCHANGED <<cvars, timers, buffers, inbox, outbox, wvars, hvars>>

\* mutant of unmount: the cleanup of the component does not clear the interval
unmountLeavesInterval ==
    /\ phase = "mounted"
    /\ phase' = "unmounted"
    /\ IF workerRef # 0
       THEN /\ listening' = FALSE
            /\ terminated' = TRUE
            /\ workerRef' = 0
       ELSE UNCHANGED <<workerRef, listening, terminated>>
    /\ UNCHANGED <<isReady, cvars, timers, buffers, inbox, outbox, wvars, hvars>>

\* mutant of unmount: the cleanup of useWorker does not terminate the worker
unmountKeepsWorker ==
    /\ phase = "mounted"
    /\ phase' = "unmounted"
    /\ IF workerRef # 0
       THEN /\ listening' = FALSE
            /\ workerRef' = 0
            /\ UNCHANGED terminated
       ELSE UNCHANGED <<workerRef, listening, terminated>>
    /\ timers' = IF intervalRef # 0 THEN timers \ {intervalRef} ELSE timers
    /\ UNCHANGED <<isReady, cvars, buffers, inbox, outbox, wvars, hvars>>

\* the component is unmounted: the cleanup of the effect of useWorker (if
\* the effect returned one) and the cleanup of the component's own effect
unmount ==
    /\ phase = "mounted"
    /\ phase' = "unmounted"
    /\ IF workerRef # 0
       THEN /\ listening' = FALSE
            /\ terminated' = TRUE
            /\ workerRef' = 0
       ELSE UNCHANGED <<workerRef, listening, terminated>>
    /\ timers' = IF intervalRef # 0 THEN timers \ {intervalRef} ELSE timers
    /\ UNCHANGED <<isReady, cvars, buffers, inbox, outbox, wvars, hvars>>

\* the component from its first render to its unmount, for one choice of
\* the two inputs
NextLifecycle ==
    \/ useWorkerEffect
    \/ unmount
    \/ startSharedCalculation
    \/ pollTick
    \/ onMessage
    \/ workerListener
    \/ performSharedCalculation
    \/ fillElement
    \/ atomicsStore
    \/ atomicsNotify
    \/ postComplete

SpecLifecycle == InitLifecycle /\ [][NextLifecycle]_vars

\* ------------------------------------------------- consecutive runs
\* the component with both inputs set to 1, over MaxStarts clicks on Run
InitStarts ==
    /\ bufferSize = Whole(1)
    /\ iterations = Whole(1)
    /\ isCalculating = FALSE
    /\ progress = 0
    /\ result = <<>>
    /\ intervalRef = 0
    /\ sharedBufferRef = 0
    /\ timers = {}
    /\ buffers = <<>>
    /\ inbox = <<>>
    /\ outbox = <<>>
    /\ wpc = "idle"
    /\ wbuf = 0
    /\ wsize = 0
    /\ witerations = 0
    /\ iter = 0
    /\ i = 0
    /\ posted = <<>>
    /\ sentLog = <<>>
    /\ observed = {}
    /\ payloadRead = NoRead
    /\ rejected = 0
    /\ foreign = 0
    /\ phase = "mounted"
    /\ isReady = TRUE
    /\ workerRef = 1
    /\ listening = TRUE
    /\ terminated = FALSE

NextStarts ==
    \/ Len(buffers) < MaxStarts /\ StartRun
    \/ pollTick
    \/ onMessage
    \/ workerListener
    \/ performSharedCalculation
    \/ fillElement
    \/ atomicsStore
    \/ atomicsNotify
    \/ postComplete

SpecStarts == InitStarts /\ [][NextStarts]_vars

\* the pass loop of the worker on its own: one run on an empty payload, for
\* every number of passes up to MaxPasses (halves included), with no handler
\* of the main thread but the start
InitProgress ==
    /\ bufferSize = Whole(0)
    /\ iterations \in 0..Whole(MaxPasses)
    /\ isCalculating = FALSE
    /\ progress = 0
    /\ result = <<>>
    /\ intervalRef = 0
    /\ sharedBufferRef = 0
    /\ timers = {}
    /\ buffers = <<>>
    /\ inbox = <<>>
    /\ outbox = <<>>
    /\ wpc = "idle"
    /\ wbuf = 0
    /\ wsize = 0
    /\ witerations = 0
    /\ iter = 0
    /\ i = 0
    /\ posted = <<>>
    /\ sentLog = <<>>
    /\ observed = {}
    /\ payloadRead = NoRead
    /\ rejected = 0
    /\ foreign = 0
    /\ phase = "mounted"
    /\ isReady = TRUE
    /\ workerRef = 1
    /\ listening = TRUE
    /\ terminated = FALSE

NextProgress ==
    \/ startSharedCalculation
    \/ workerListener
    \/ performSharedCalculation
    \/ atomicsStore
    \/ atomicsNotify
    \/ postComplete

SpecProgress == InitProgress /\ [][NextProgress]_vars

\* ------------------------------------------------- the layout of a buffer
\* a typed-array view of a buffer: its first byte, its element count and its
\* element size; the constructors raise a RangeError instead
RangeError == [byteOffset |-> -1, length |-> -1, bytesPerElement |-> 0]

\* new TypedArray(buffer, byteOffset, length)
TypedArray(byteLength, bytesPerElement, byteOffset, length) ==
    LET o == Trunc(byteOffset)
        n == Trunc(length)
    IN IF \/ o < 0
          \/ n < 0
          \/ o % bytesPerElement # 0
          \/ o + n * bytesPerElement > byteLength
       THEN RangeError
       ELSE [byteOffset |-> o, length |-> n, bytesPerElement |-> bytesPerElement]

\* new TypedArray(buffer) and new TypedArray(buffer, byteOffset): the view
\* runs to the end of the buffer
TypedArrayToEnd(byteLength, bytesPerElement, byteOffset) ==
    LET o == Trunc(byteOffset)
    IN IF \/ o < 0
          \/ o % bytesPerElement # 0
          \/ byteLength % bytesPerElement # 0
          \/ o > byteLength
       THEN RangeError
       ELSE [byteOffset |-> o, length |-> (byteLength - o) \div bytesPerElement,
             bytesPerElement |-> bytesPerElement]

\* the two views startSharedCalculation creates on a buffer of its size
ControllerViews(size) ==
    LET byteLength == Trunc(totalByteSize(size))
    IN [array |-> TypedArray(byteLength, Float64BytesPerElement, Whole(0), size),
        syncFlag |-> TypedArray(byteLength, Int32BytesPerElement,
                                syncFlagByteOffset(size), Whole(1))]

\* the two views the worker's listener creates from the message fields
EngineViews(byteLength, size) ==
    LET workerFloatArrayByteSize == size * Float64BytesPerElement
        workerSyncFlagByteOffset == workerFloatArrayByteSize
    IN [array |-> TypedArray(byteLength, Float64BytesPerElement, Whole(0), size),
        syncFlag |-> TypedArray(byteLength, Int32BytesPerElement,
                                workerSyncFlagByteOffset, Whole(1))]

\* the views of the listener that passes no offset and no length:
\* new Float64Array(data.buffer) and
\* new Int32Array(data.buffer, bufferSize * Float64Array.BYTES_PER_ELEMENT)
EngineViewsToEnd(byteLength, size) ==
    [array |-> TypedArrayToEnd(byteLength, Float64BytesPerElement, Whole(0)),
     syncFlag |-> TypedArrayToEnd(byteLength, Int32BytesPerElement,
                                  size * Float64BytesPerElement)]

\* the bytes of element k of a view
BytesOf(view, k) ==
    (view.byteOffset + k * view.bytesPerElement)
        .. (view.byteOffset + (k + 1) * view.bytesPerElement - 1)

\* ---------------------------------------------------------------- claims
\* the parameters of the run on buffer r, as the component posted them
SizeOf(r) == posted[r].bufferSize.v

IterationsOf(r) == posted[r].iterations.v

\* v is floor(100 * sqrt(n))
IsSqrtOf(v, n) == v * v <= 10000 * n /\ (v + 1) * (v + 1) > 10000 * n

PositiveInteger(x) == IsInteger(x) /\ x > 0

\* every run started so far has positive integer parameters
ValidRuns ==
    \A n \in 1..Len(posted) :
        PositiveInteger(posted[n].bufferSize.v) /\ PositiveInteger(posted[n].iterations.v)

\* the run state of the component
RunState ==
    IF sharedBufferRef = 0 THEN "Idle"
    ELSE IF isCalculating THEN "Running" ELSE "Completed"

\* a completion handler runs in this step
CompletionHandler ==
    \/ pollTick /\ sharedBufferRef # 0 /\ AtomicsLoad(sharedBufferRef) = 1
    \/ onMessage /\ Head(outbox).type = "shared-complete"

\* C1: once the main thread has observed the completion of a run with an
\* integer bufferSize >= 0 and an integer iterations >= 1 (its poll tick
\* loaded 1 from the run's buffer, or the run's shared-complete message was
\* delivered), the buffer has bufferSize elements and element k holds
\* sqrt(k * (iterations - 1)).
C1_FinalPayload ==
    \A r \in observed :
        (IsInteger(SizeOf(r)) /\ SizeOf(r) >= 0 /\ IsInteger(IterationsOf(r))
            /\ IterationsOf(r) >= Whole(1))
        => /\ Whole(Len(ArrayOf(r))) = SizeOf(r)
           /\ \A k \in 0..Len(ArrayOf(r)) - 1 :
                 IsSqrtOf(ArrayOf(r)[k + 1], k * (Trunc(IterationsOf(r)) - 1))

C1_Witness ==
    \E r \in observed :
        /\ SizeOf(r) = Whole(MaxBufferSize)
        /\ IterationsOf(r) = Whole(MaxIterations)
        /\ ArrayOf(r)[MaxBufferSize] > 0

\* C2: whenever a handler of the main thread reads payload elements of the
\* buffer it holds, the synchronization word of that buffer is 1 (stated for
\* runs with positive integer parameters).
C2_ReadOnlyAfterFlag ==
    (ValidRuns /\ payloadRead.buffer # 0) => payloadRead.syncFlag = 1

\* C3: the synchronization word of a buffer is 0 when the buffer is
\* allocated, never goes from 1 back to 0, and is 1 in every state in which
\* the completion of the buffer's run has been observed.
C3_SyncWord ==
    [][\A r \in 1..Len(buffers') :
        /\ r > Len(buffers) => buffers'[r].syncFlag = 0
        /\ (r <= Len(buffers) /\ buffers[r].syncFlag = 1) => buffers'[r].syncFlag = 1
        /\ r \in observed' => buffers'[r].syncFlag = 1]_vars

C3_Witness ==
    \E r \in observed : buffers[r].syncFlag = 1 /\ Len(buffers) > r /\ buffers[r + 1].syncFlag = 0

\* C4: when a completion handler runs in a state in which a completion
\* handler has already completed the current run, it leaves the recorded
\* result unchanged, progress at 100, isCalculating false and the timer
\* cleared (stated for runs with positive integer parameters).
C4_Idempotent ==
    [][(ValidRuns /\ RunState = "Completed" /\ CompletionHandler)
        => /\ result' = result
           /\ progress' = 100
           /\ ~isCalculating'
           /\ intervalRef' = 0
           /\ timers' = {}]_vars

\* C5: the run state moves only from Idle to Running (through the
\* allocation inside the start handler), from Running to Completed and from
\* Completed to the next Running, and it enters Completed only when the
\* worker has stored 1 into the current buffer (stated for runs with
\* positive integer parameters).
C5_CompletedAfterStore ==
    [][ValidRuns' =>
        /\ RunState' # RunState =>
             <<RunState, RunState'>> \in {<<"Idle", "Running">>, <<"Running", "Completed">>,
                                          <<"Completed", "Running">>}
        /\ (RunState = "Running" /\ RunState' = "Completed")
             => AtomicsLoad(sharedBufferRef) = 1]_vars

\* the positions in the log of sent messages of the shared-complete
\* messages, and of all messages, of the run on buffer r
CompletesOf(r) ==
    {n \in 1..Len(sentLog) : sentLog[n].type = "shared-complete" /\ sentLog[n].run = r}

MessagesOf(r) == {n \in 1..Len(sentLog) : sentLog[n].run = r}

\* the listener has taken the message of buffer r and has returned
Handled(r) ==
    /\ wbuf # r
    /\ \A n \in 1..Len(inbox) : inbox[n].buffer # SharedBuffer(r)

\* C6: the worker sends at most one shared-complete message per accepted
\* start message, exactly one by the time its listener returns, and no
\* message of the run is sent after it.
C6_OneTerminalComplete ==
    \A r \in 1..Len(posted) :
        /\ Cardinality(CompletesOf(r)) <= 1
        /\ Handled(r) => Cardinality(CompletesOf(r)) = 1
        /\ \A n \in CompletesOf(r) : \A m \in MessagesOf(r) : m <= n

C6_Witness ==
    \E r \in 1..Len(posted) :
        /\ Handled(r)
        /\ Cardinality(MessagesOf(r)) >= 3
        /\ Cardinality(CompletesOf(r)) = 1

\* C7: the progress state never decreases within a run, it stays within
\* 0..100, and it is 100 in every state in which the run is completed
\* (stated for runs with positive integer parameters).
C7_ProgressMonotone ==
    [][ValidRuns' =>
        /\ sharedBufferRef' = sharedBufferRef => progress' >= progress
        /\ progress' \in 0..100
        /\ RunState' = "Completed" => progress' = 100]_vars

Malformed(message) ==
    /\ message.type = "compute-shared"
    /\ \/ message.buffer.kind # "SharedArrayBuffer"
       \/ message.bufferSize.t # "number"
       \/ message.iterations.t # "number"

\* C9: when the listener takes a malformed compute-shared message it writes
\* nothing into any buffer, sends nothing and stays idle.
C9_MalformedDropped ==
    [][(workerListener /\ Malformed(Head(inbox)))
        => /\ buffers' = buffers
           /\ outbox' = outbox
           /\ sentLog' = sentLog
           /\ wpc' = "idle"]_vars

C9_Witness == rejected > 0 /\ sharedBufferRef # 0 /\ wpc = "idle"

\* C10: every compute-shared message the component posts, and every
\* computation of the worker, has a positive integer bufferSize and a
\* positive integer iterations.
C10_ValidatedParameters ==
    /\ ValidRuns
    /\ wpc # "idle" => PositiveInteger(wsize) /\ PositiveInteger(witerations)

\* the component is stopped with a result recorded for its current buffer
ResultRecorded ==
    /\ sharedBufferRef # 0
    /\ ~isCalculating
    /\ Len(result) = Len(Slice(ArrayOf(sharedBufferRef), SliceEnd))

\* C11: under fair scheduling of the worker, the interval and the message
\* delivery, every run the component has started is eventually observed as
\* complete (by the poll tick or by its shared-complete message) with a
\* result recorded.
C11_EventuallyObserved ==
    \A r \in 1..MaxRuns : (Len(posted) >= r) ~> (r \in observed /\ ResultRecorded)

C11_Witness ==
    \E r \in observed : PositiveInteger(SizeOf(r)) /\ ResultRecorded /\ Len(result) > 0

\* C12: every start allocates a new buffer and posts it, and the buffer of a
\* compute-shared message is carried by no other compute-shared message.
C12_RegionSentOnce ==
    [][posted' # posted =>
        /\ Len(buffers') = Len(buffers) + 1
        /\ Len(posted') = Len(posted) + 1
        /\ SubSeq(posted', 1, Len(posted)) = posted
        /\ posted'[Len(posted')].buffer = SharedBuffer(Len(buffers'))
        /\ \A n \in 1..Len(posted) : posted[n].buffer # posted'[Len(posted')].buffer]_vars

C12_Witness ==
    /\ Len(posted) = MaxRuns
    /\ \A r \in 1..MaxRuns : PositiveInteger(SizeOf(r)) /\ posted[r].buffer = SharedBuffer(r)

\* C13: a run with bufferSize = 0 has a buffer of exactly 4 bytes with an
\* empty payload view, the worker never enters the inner loop for it, the
\* result recorded for it is the empty sequence, its synchronization word is
\* 1 once its completion is observed, and under fair scheduling its
\* completion is eventually observed.
C13_EmptyPayload ==
    /\ [](\A r \in 1..Len(posted) : SizeOf(r) = Whole(0) =>
            /\ buffers[r].byteLength = 4
            /\ ArrayOf(r) = <<>>
            /\ wbuf = r => wpc # "fill"
            /\ r \in observed => AtomicsLoad(r) = 1
            /\ (sharedBufferRef = r /\ ~isCalculating) => result = <<>>)
    /\ \A r \in 1..MaxRuns :
          (Len(posted) >= r /\ SizeOf(r) = Whole(0))
              ~> (r \in observed /\ AtomicsLoad(r) = 1)

C13_Witness ==
    \E r \in observed :
        /\ SizeOf(r) = Whole(0)
        /\ IterationsOf(r) = Whole(MaxIterations)
        /\ sharedBufferRef = r
        /\ result = <<>>
        /\ ~isCalculating

\* the worker still has payload writes of buffer r ahead of it
WritesAhead(r) ==
    \/ wbuf = r /\ wpc \in {"loop", "fill"}
    \/ \E n \in 1..Len(inbox) : inbox[n].buffer = SharedBuffer(r)

\* C14: the worker stores 1 only after the last payload write, notifies after
\* the store and posts shared-complete after the notify; once the
\* synchronization word of a buffer is 1, or the shared-complete message of
\* its run is sent, the payload of the buffer is never written again.
C14_PublicationOrder ==
    /\ [](\A r \in 1..Len(buffers) :
            /\ (AtomicsLoad(r) = 1 \/ CompletesOf(r) # {}) => ~WritesAhead(r)
            /\ (wbuf = r /\ wpc \in {"notify", "complete"}) => AtomicsLoad(r) = 1
            /\ CompletesOf(r) # {} => (AtomicsLoad(r) = 1 /\ wbuf # r))
    /\ [][/\ \A r \in 1..Len(buffers) :
              (AtomicsLoad(r) = 1 \/ CompletesOf(r) # {}) => ArrayOf(r)' = ArrayOf(r)
          /\ (wpc' = "store" /\ wpc # "store") => (wpc = "loop" /\ Whole(iter) >= witerations)
          /\ (wpc' = "notify" /\ wpc # "notify") => (wpc = "store" /\ AtomicsLoad(wbuf)' = 1)
          /\ (wpc' = "complete" /\ wpc # "complete") => wpc = "notify"
          /\ (Len(sentLog') > Len(sentLog) /\ sentLog'[Len(sentLog')].type = "shared-complete")
                => wpc = "complete"]_vars

C14_Witness ==
    \E r \in 1..Len(buffers) :
        /\ AtomicsLoad(r) = 1
        /\ CompletesOf(r) # {}
        /\ Len(ArrayOf(r)) = MaxBufferSize
        /\ ArrayOf(r)[MaxBufferSize] > 0

\* C15: the synchronization word of a buffer goes from 0 to 1 only in the
\* worker's atomic store on that buffer; an allocated buffer changes only in
\* a step of the worker on it, a step that runs no handler of the main thread
\* (it changes no state of the component, no timer and no message queue): the
\* only write of the main thread is the 0 of the allocation.
C15_OnlyEngineSetsFlag ==
    [][\A r \in 1..Len(buffers) :
        /\ (AtomicsLoad(r) = 0 /\ buffers'[r].syncFlag = 1)
              => (wbuf = r /\ wpc = "store" /\ wpc' = "notify" /\ cvars' = cvars)
        /\ buffers'[r] # buffers[r] => (wbuf = r /\ wpc \in {"fill", "store"})
        /\ buffers'[r] # buffers[r]
              => (cvars' = cvars /\ timers' = timers /\ inbox' = inbox /\ outbox' = outbox)]_vars

C15_Witness ==
    \E r \in observed :
        /\ AtomicsLoad(r) = 1
        /\ sharedBufferRef = r
        /\ progress = 100
        /\ outbox = <<>>
        /\ wpc = "idle"

\* C16: while the compute-shared message of a buffer is in the worker's
\* inbox, from the moment it is sent, every payload element of the buffer is
\* 0 and its synchronization word is 0.
C16_ZeroAtSend ==
    \A n \in 1..Len(inbox) :
        inbox[n].buffer.kind = "SharedArrayBuffer" =>
            /\ AtomicsLoad(inbox[n].buffer.id) = 0
            /\ \A k \in 1..Len(ArrayOf(inbox[n].buffer.id)) : ArrayOf(inbox[n].buffer.id)[k] = 0

C16_Witness ==
    \E n \in 1..Len(inbox) :
        /\ inbox[n].buffer.kind = "SharedArrayBuffer"
        /\ Len(ArrayOf(inbox[n].buffer.id)) = MaxBufferSize

\* C17: every buffer posted has bufferSize * 8 + 4 bytes for the bufferSize
\* posted with it, and every index at which the worker's inner loop stores
\* lies inside the payload view of the buffer.
C17_WritesInsidePayload ==
    /\ \A r \in 1..Len(posted) : Whole(buffers[r].byteLength) = SizeOf(r) * 8 + Whole(4)
    /\ wpc = "fill" => i < Len(ArrayOf(wbuf))

\* C18: for every buffer posted with an integer bufferSize, the views the
\* worker derives from the message (in either form of its listener) are the
\* views of the component: a payload view of bufferSize elements from byte 0
\* and one 32-bit word at byte bufferSize * 8, which is a multiple of 4 and
\* ends inside the buffer, and no payload element shares a byte with the word.
C18_SameLayout ==
    \A r \in 1..Len(posted) : IsInteger(SizeOf(r)) =>
        LET size == SizeOf(r)
            byteLength == buffers[r].byteLength
            views == ControllerViews(size)
        IN /\ EngineViews(byteLength, size) = views
           /\ EngineViewsToEnd(byteLength, size) = views
           /\ views.array = [byteOffset |-> 0, length |-> Trunc(size),
                             bytesPerElement |-> Float64BytesPerElement]
           /\ Len(ArrayOf(r)) = views.array.length
           /\ views.syncFlag.length = 1
           /\ Whole(views.syncFlag.byteOffset) = size * 8
           /\ views.syncFlag.byteOffset % 4 = 0
           /\ views.syncFlag.byteOffset + 4 <= byteLength
           /\ \A k \in 0..views.array.length - 1 :
                 BytesOf(views.array, k) \cap BytesOf(views.syncFlag, 0) = {}

\* the positions in the log of sent messages of the progress messages of the
\* run on buffer r
ProgressesOf(r) ==
    {n \in 1..Len(sentLog) : sentLog[n].type = "progress" /\ sentLog[n].run = r}

\* C19: the progress messages of one run carry integers of 0..100 that never
\* decrease in send order; 100 is carried by the last one only, and the run
\* ends with it; a message sent inside the pass loop carries
\* floor(iter / iterations * 100), which is below 100.
C19_ProgressSequence ==
    /\ [](\A r \in 1..Len(posted) :
            /\ \A n \in ProgressesOf(r) : sentLog[n].progress.v \in 0..100
            /\ \A m, n \in ProgressesOf(r) :
                  m < n => /\ sentLog[m].progress.v <= sentLog[n].progress.v
                           /\ sentLog[m].progress.v < 100
            /\ CompletesOf(r) # {} =>
                  \E n \in ProgressesOf(r) :
                      /\ sentLog[n].progress.v = 100
                      /\ \A m \in ProgressesOf(r) : m <= n)
    /\ [][(wpc = "loop" /\ Whole(iter) < witerations /\ Len(sentLog') > Len(sentLog)) =>
            LET p == sentLog'[Len(sentLog')].progress.v
            IN /\ sentLog'[Len(sentLog')].type = "progress"
               /\ p * witerations <= Whole(iter) * 100
               /\ (p + 1) * witerations > Whole(iter) * 100
               /\ p < 100]_vars

C19_Witness ==
    \E r \in 1..Len(posted) :
        /\ IterationsOf(r) = Whole(MaxPasses)
        /\ CompletesOf(r) # {}
        /\ \E n \in ProgressesOf(r) : sentLog[n].progress.v \in 1..99

\* C20: a run with an integer iterations >= 1 sends at most 39 progress
\* messages from inside the pass loop and one more, the final 100: at most
\* 40 progress messages.
C20_ProgressBounded ==
    \A r \in 1..Len(posted) : PositiveInteger(IterationsOf(r)) =>
        /\ Cardinality(ProgressesOf(r)) <= 40
        /\ Cardinality({n \in ProgressesOf(r) : sentLog[n].progress.v < 100}) <= 39

C20_Witness ==
    \E r \in 1..Len(posted) :
        /\ PositiveInteger(IterationsOf(r))
        /\ Cardinality(ProgressesOf(r)) = 40
        /\ CompletesOf(r) # {}

\* C21: in the component that synthesizes progress, an interval callback
\* that loads 0 raises progress by 5, or to 95 at most; progress never
\* decreases within a run, it is below 100 as long as the completion of the
\* current run has not been observed, and it is 100 in the step that
\* observes it (stated for runs with positive integer parameters).
C21_SynthesizedProgress ==
    [][ValidRuns' =>
        /\ (pollTickSynthesized /\ sharedBufferRef # 0 /\ AtomicsLoad(sharedBufferRef) = 0)
              => /\ progress' \in {progress + 5, 95}
                 /\ progress' <= 95
        /\ sharedBufferRef' = sharedBufferRef => progress' >= progress
        /\ (sharedBufferRef' # 0 /\ sharedBufferRef' \notin observed') => progress' < 100
        /\ observed' # observed => progress' = 100]_vars

\* the worker has been torn down (the cleanup of useWorker at unmount)
\* while buffer r has been handed to the worker and its word is still 0
TornDownBeforeStore(r) ==
    /\ phase = "unmounted"
    /\ r \in 1..Len(posted)
    /\ AtomicsLoad(r) = 0

\* C23: once the worker has been torn down with the word of a started run
\* still 0, no shared-complete message of that run has been or is ever sent,
\* the word stays 0, and the completion of that run is neither observed nor
\* reported by any later step of the component.
C23_TornDownNeverCompletes ==
    /\ [](\A r \in 1..MaxRuns : TornDownBeforeStore(r) =>
              (CompletesOf(r) = {} /\ r \notin observed))
    /\ [][\A r \in 1..MaxRuns : TornDownBeforeStore(r) =>
              /\ TornDownBeforeStore(r)'
              /\ sentLog' = sentLog
              /\ observed' = observed
              /\ isCalculating' = isCalculating
              /\ progress' = progress
              /\ result' = result]_vars

\* the worker was torn down in the middle of the passes of a running run
C23_Witness ==
    /\ phase = "unmounted"
    /\ terminated
    /\ sharedBufferRef # 0
    /\ TornDownBeforeStore(sharedBufferRef)
    /\ isCalculating
    /\ wbuf = sharedBufferRef
    /\ wpc = "fill"

\* C24: the unmount clears the active interval, removes the message listener
\* and terminates the worker; after it no step changes result, progress or
\* isCalculating, no interval is active and no message is delivered.
C24_UnmountFreezes ==
    /\ [](phase = "unmounted" => (timers = {} /\ ~listening /\ workerRef = 0))
    /\ [][(phase = "mounted" /\ phase' = "unmounted" /\ workerRef # 0) => terminated']_vars
    /\ [][phase = "unmounted" =>
              /\ result' = result
              /\ progress' = progress
              /\ isCalculating' = isCalculating
              /\ outbox' = outbox]_vars

\* unmounted during a run with a message of the worker still undelivered
C24_Witness ==
    /\ phase = "unmounted"
    /\ isCalculating
    /\ intervalRef # 0
    /\ outbox # <<>>
    /\ terminated

\* C28: whenever the component is mounted and isReady is true the worker
\* exists; each start posts its compute-shared message to the worker (the
\* message is appended to the worker's queue); and if creating the worker
\* failed, isReady stays false and no run is ever started.
C28_StartReachesWorker ==
    /\ []((phase = "mounted" /\ isReady) => workerRef # 0)
    /\ []((phase # "render" /\ ~isReady) => (posted = <<>> /\ buffers = <<>>))
    /\ []((phase = "mounted" /\ workerRef = 0) => ~isReady)
    /\ [][posted' # posted =>
              /\ phase = "mounted" /\ isReady /\ workerRef # 0
              /\ inbox' = Append(inbox, posted'[Len(posted')])]_vars

\* a run has been started and its message is in the worker's queue
C28_Witness ==
    /\ phase = "mounted"
    /\ isReady
    /\ workerRef # 0
    /\ Len(posted) = 1
    /\ inbox = <<posted[1]>>

\* the regions handed to the worker whose word is still 0
InFlight == {r \in 1..Len(posted) : AtomicsLoad(r) = 0}

\* C25: over consecutive runs at most one region is in flight (sent to the
\* worker and its word not yet 1), and a start happens only when none is.
C25_OneInFlight ==
    /\ [](Cardinality(InFlight) <= 1)
    /\ [][posted' # posted => InFlight = {}]_vars

\* C26: at most one interval is active and it is the one of the handle;
\* whenever isCalculating is false the handle is null and no interval is
\* active; a completion handler leaves no interval active; and a start sets
\* the handle only when it is null and no interval is active.
C26_OneTimer ==
    /\ [](/\ Cardinality(timers) <= 1
          /\ timers \subseteq {intervalRef}
          /\ (~isCalculating => (intervalRef = 0 /\ timers = {})))
    /\ [][CompletionHandler => (intervalRef' = 0 /\ timers' = {})]_vars
    /\ [][(intervalRef' # intervalRef /\ intervalRef' # 0) =>
              (intervalRef = 0 /\ timers = {} /\ timers' = {intervalRef'})]_vars

\* the second run has its own interval after the first was completed
C26_Witness ==
    /\ Len(posted) = 2
    /\ isCalculating
    /\ intervalRef = 2
    /\ timers = {2}
    /\ 1 \in observed

\* C27: the result a completion handler (poll tick loading 1, or a
\* shared-complete message) records is the first min(10, bufferSize)
\* elements of the current buffer, in index order; and when the current run
\* already has a recorded result, the other or the same handler records the
\* same sequence (stated for runs with positive integer parameters).
C27_RecordedResult ==
    [][(ValidRuns' /\ CompletionHandler) =>
          /\ Len(result') = Min(SliceEnd, Trunc(SizeOf(sharedBufferRef)))
          /\ \A k \in 1..Len(result') : result'[k] = ArrayOf(sharedBufferRef)[k]
          /\ RunState = "Completed" => result' = result]_vars
====
